---- MODULE Spec2Model ----
(***************************************************************************)
(* City Data Reporter (reporter.py): one run of main() prompts for a city, *)
(* fetches the weather over HTTP, parses the JSON body into a flat row,    *)
(* prints it, appends it to city_data.csv and reads the file back.         *)
(*                                                                         *)
(* Conventions of the model                                                *)
(*  - text typed at the console (API key, city) is a sequence of           *)
(*    characters, so that strip(), split() and title() are computed;       *)
(*  - a JSON value is a tagged record: Absent (key not in the mapping),    *)
(*    Null (JSON null, Python None), Num(n), Str(s), or an object;         *)
(*    main.temp is a decimal with two fraction digits, Num(h) = h/100,     *)
(*    main.humidity a decimal with one fraction digit, Num(d) = d/10;      *)
(*    name, country and description are text, null or missing; temp and    *)
(*    humidity are numbers, null or missing; message is text or missing;   *)
(*  - the CSV file is [exists, rows]: rows is the sequence of CSV records  *)
(*    in the file, each a sequence of field texts (the csv module quotes   *)
(*    on write and unquotes on read, so field text round-trips); the file  *)
(*    has size 0 exactly when it holds no record.                          *)
(***************************************************************************)
EXTENDS Integers, Sequences, FiniteSets, TLC

VARIABLES
    pc,         \* position in main(): the call that runs next
    env_key,    \* os.getenv("OPENWEATHER_API_KEY"): Null or Str(chars)
    api_key,    \* main's api_key (Null before get_api_key returns)
    key_line,   \* the line typed at get_api_key's prompt (<<>> if none)
    city,       \* main's city (<<>> before prompt_city returns)
    line,       \* the last line typed at prompt_city's prompt
    rejected,   \* lines prompt_city has refused in this run
    only_blank, \* every line prompt_city refused was empty after strip()
    raw_data,   \* main's raw_data (Null before fetch_weather returns)
    http,       \* the HTTP exchange of this run (Null before the GET)
    err,        \* the ValueError message being handled ("" if none)
    parsed,     \* main's parsed row (Null before parse_weather returns)
    file,       \* city_data.csv on disk
    stdout,     \* lines printed by the current run
    exit_code,  \* process exit status, meaningful when pc = "exit"
    calls,      \* how often each component ran in the current run
    trail,      \* program states (section 4 state machine) entered this run
    file0,      \* the file as it was when the current run started
    runs,       \* completed runs before the current one
    successes,  \* runs so far that appended a row
    rows0,      \* data rows in the file before the first run
    written     \* the rows appended since then, in order

vars == <<pc, env_key, api_key, key_line, city, line, rejected, only_blank, raw_data, http,
          err, parsed, file, stdout, exit_code, calls, trail, file0, runs, successes,
          rows0, written>>

----------------------------------------------------------------------------
\* Bounds of the model.

\* longest line typed at a prompt, in characters
MaxLen == 4
\* lines prompt_city may refuse before the model stops offering blank input
MaxPrompts == 2
\* data rows already in the CSV file when a run starts
MaxRows == 2
\* runs of the program against the same file
MaxRuns == 3
\* |main.temp| up to MaxTemp/100 degrees in the numeric specification
MaxTemp == 400
\* |main.humidity| up to MaxHum/10 percent in the numeric specification
MaxHum == 25
\* direct calls of write_row_to_csv on one file
MaxCalls == 3

----------------------------------------------------------------------------
\* Values.

Null == [k |-> "null"]
Absent == [k |-> "absent"]
Num(n) == [k |-> "num", v |-> n]
Str(s) == [k |-> "str", v |-> s]




\* dict.get(key, default) on a field of a decoded mapping: the default only
\* when the key is not in the mapping; a JSON null comes back as None.
Get(x, default) == IF x = Absent THEN default ELSE x

----------------------------------------------------------------------------
\* Console text: sequences of characters.

Space == " "
Tab == "\t"
Whitespace == {Space, Tab}
Alphabet == {Space, Tab, "a", "A", "-"}

IsLower(c) == c = "a"
IsUpper(c) == c = "A"
IsCased(c) == IsLower(c) \/ IsUpper(c)
Upper(c) == IF c = "a" THEN "A" ELSE c
Lower(c) == IF c = "A" THEN "a" ELSE c

RECURSIVE LStrip(_)
LStrip(s) == IF s # <<>> /\ Head(s) \in Whitespace THEN LStrip(Tail(s)) ELSE s

RECURSIVE RStrip(_)
RStrip(s) ==
    IF s # <<>> /\ s[Len(s)] \in Whitespace
    THEN RStrip(SubSeq(s, 1, Len(s) - 1))
    ELSE s

\* str.strip()
Strip(s) == RStrip(LStrip(s))

\* The first word of s (s starts with a non-whitespace character).
RECURSIVE Word(_)
Word(s) ==
    IF s = <<>> \/ Head(s) \in Whitespace
    THEN <<>>
    ELSE <<Head(s)>> \o Word(Tail(s))

\* str.split(): the maximal runs of non-whitespace characters, in order.
RECURSIVE Split(_)
Split(s) ==
    LET t == LStrip(s)
        w == Word(t)
    IN IF t = <<>> THEN <<>>
       ELSE <<w>> \o Split(SubSeq(t, Len(w) + 1, Len(t)))

\* " ".join(words)
RECURSIVE Join(_)
Join(words) ==
    IF words = <<>> THEN <<>>
    ELSE IF Len(words) = 1 THEN Head(words)
    ELSE Head(words) \o <<Space>> \o Join(Tail(words))

\* str.title(): a cased character is upper-cased when the character before
\* it is not cased, lower-cased when it is; other characters are kept.
RECURSIVE TitleFrom(_, _)
TitleFrom(s, prev_cased) ==
    IF s = <<>> THEN <<>>
    ELSE LET c == Head(s)
             d == IF ~IsCased(c) THEN c
                  ELSE IF prev_cased THEN Lower(c) ELSE Upper(c)
         IN <<d>> \o TitleFrom(Tail(s), IsCased(c))

Title(s) == TitleFrom(s, FALSE)

\* A prompt_city that joins the words without title-casing them.
NormalizeNoTitle(r) == Join(Split(r))

\* prompt_city's normalisation of a stripped, non-empty line:
\* " ".join(raw.split()).title()
Normalize(r) == Title(Join(Split(r)))

----------------------------------------------------------------------------
\* Numbers.

Abs(n) == IF n < 0 THEN -n ELSE n

\* 2^k modulo 100
RECURSIVE Pow2Mod100(_)
Pow2Mod100(k) == IF k = 0 THEN 1 ELSE (2 * Pow2Mod100(k - 1)) % 100

RECURSIVE Log2(_)
Log2(m) == IF m < 2 THEN 0 ELSE 1 + Log2(m \div 2)

\* The least j with a * 2^j >= 100, for 0 < a < 100.
RECURSIVE ShiftTo100(_)
ShiftTo100(a) == IF a >= 100 THEN 0 ELSE 1 + ShiftTo100(2 * a)

\* The binary exponent e of a/100 (a > 0): 2^e <= a/100 < 2^(e+1).
Exponent(a) == IF a >= 100 THEN Log2(a \div 100) ELSE -ShiftTo100(a)

\* float(x) of the decimal a/100 (a > 0) is the IEEE double nearest to it,
\* an integer multiple of 2^(e-52). It lies below a/100 exactly when the
\* remainder of a * 2^(52-e) by 100 is in 1..49, above when in 51..99.
DoubleBelow(a) == (a * Pow2Mod100(52 - Exponent(a))) % 100 < 50

\* |round(float(a/100), 1)| in tenths, a >= 0: round() is correctly rounded
\* on the double's exact value, ties (a/100 exact in binary) to even.
RoundTenths(a) ==
    LET q == a \div 10
        r == a % 10
    IN IF r < 5 THEN q
       ELSE IF r > 5 THEN q + 1
       ELSE IF a % 50 = 25 THEN (IF q % 2 = 0 THEN q ELSE q + 1)
       ELSE IF DoubleBelow(a) THEN q ELSE q + 1

\* A Python float with one fraction digit: sign and magnitude in tenths
\* (the sign is kept apart: round(-0.04, 1) is -0.0).
PyFloat(neg, mag) == [k |-> "float", neg |-> neg, mag |-> mag]
PyInt(n) == [k |-> "int", v |-> n]

\* The number a PyFloat stands for, in tenths.
Tenths(f) == IF f.neg THEN -f.mag ELSE f.mag

\* round(float(temp_c), 1) for temp_c = h/100
round1(h) == PyFloat(h < 0, RoundTenths(Abs(h)))

\* A conversion that rounds to the nearest integer.
intRound(d) == PyInt(IF d < 0 THEN -((Abs(d) + 5) \div 10) ELSE (d + 5) \div 10)

\* int(humidity) for humidity = d/10: truncation toward zero
int(d) == PyInt(IF d < 0 THEN -(Abs(d) \div 10) ELSE d \div 10)

\* repr() of a PyFloat, str() of an int
FloatRepr(f) ==
    (IF f.neg THEN "-" ELSE "") \o ToString(f.mag \div 10) \o "."
        \o ToString(f.mag % 10)
IntStr(n) == ToString(n)

\* str(v) as an f-string interpolates it
PyStr(v) ==
    CASE v.k = "str" -> v.v
      [] v.k = "null" -> "None"
      [] v.k = "float" -> FloatRepr(v)
      [] v.k = "int" -> IntStr(v.v)

\* The text csv.writer writes for a field value: None becomes "".
CsvText(v) == IF v = Null THEN "" ELSE PyStr(v)

----------------------------------------------------------------------------
\* Results of a call: a returned value or a raised ValueError(message).

Return(v) == [ok |-> TRUE, val |-> v, err |-> ""]
Raise(m) == [ok |-> FALSE, val |-> Null, err |-> m]

----------------------------------------------------------------------------
\* get_api_key

\* bool(key and key.strip()) for key = os.getenv(...)
KeyUsable(key) == key # Null /\ key.v # <<>> /\ Strip(key.v) # <<>>

\* A get_api_key that accepts whatever was typed, empty or not.
get_api_keyNoCheck(env, typed) ==
    IF KeyUsable(env) THEN Return(Str(Strip(env.v)))
    ELSE Return(Str(Strip(typed)))

\* The key from the environment, else from the line typed at the prompt;
\* ok = FALSE stands for sys.exit(1) (no ValueError is raised here).
get_api_key(env, typed) ==
    IF KeyUsable(env) THEN Return(Str(Strip(env.v)))
    ELSE IF Strip(typed) = <<>> THEN Raise("An API key is required. Exiting.")
    ELSE Return(Str(Strip(typed)))

----------------------------------------------------------------------------
\* fetch_weather

\* A decoded JSON object with the keys the program reads.
Body(message, name, sys, main, weather) ==
    [k |-> "obj", message |-> message, name |-> name, sys |-> sys,
     main |-> main, weather |-> weather]
Sys(country) == [k |-> "obj", country |-> country]
Main(temp, humidity) == [k |-> "obj", temp |-> temp, humidity |-> humidity]
Weather(description) == [k |-> "obj", description |-> description]
List(items) == [k |-> "list", v |-> items]

\* {}
EmptyObj == Body(Absent, Absent, Absent, Absent, Absent)

\* A response body that is not JSON.
Undecodable == [k |-> "undecodable"]

\* The outcome of requests.get: an exception or a response.
Exc(text) == [k |-> "exc", text |-> text]
Resp(status, body) == [k |-> "resp", status |-> status, body |-> body]

\* resp.json(), with {} when the body does not decode
Json(body) == IF body = Undecodable THEN EmptyObj ELSE body

\* A fetch_weather whose 404 branch ignores the body's message.
fetch_weatherGeneric404(x) ==
    IF x.k = "exc" THEN Raise("Network error contacting the API: " \o x.text)
    ELSE LET data == Json(x.body)
         IN IF x.status = 200 THEN Return(data)
            ELSE IF x.status = 401
            THEN Raise("Unauthorized (401): Invalid or missing API key.")
            ELSE IF x.status = 404
            THEN Raise("Not found (404): City not found.")
            ELSE Raise("API error (" \o ToString(x.status) \o "): "
                       \o PyStr(Get(data.message, Str("Unexpected error"))))

\* fetch_weather(city, api_key), given the outcome x of its one GET.
fetch_weather(x) ==
    IF x.k = "exc" THEN Raise("Network error contacting the API: " \o x.text)
    ELSE LET data == Json(x.body)
         IN IF x.status = 200 THEN Return(data)
            ELSE IF x.status = 401
            THEN Raise("Unauthorized (401): Invalid or missing API key.")
            ELSE IF x.status = 404
            THEN Raise("Not found (404): "
                       \o PyStr(Get(data.message, Str("City not found."))))
            ELSE Raise("API error (" \o ToString(x.status) \o "): "
                       \o PyStr(Get(data.message, Str("Unexpected error"))))

----------------------------------------------------------------------------
\* parse_weather

CSV_HEADERS == <<"City", "Country", "Temperature (C)", "Humidity (%)", "Description">>

\* The placeholder for a missing country code (U+2014 in the source).
EmDash == "<U+2014>"
\* The degree sign of the printed lines (U+00B0 in the source).
Degree == "<U+00B0>"

\* x or {} / x or []: the operand unless it is falsy
OrEmptyObj(x, empty) == IF x = Null \/ x = Absent THEN empty ELSE x

\* The row dictionary parse_weather builds.
Row(c, co, t, h, d) ==
    "City" :> c @@ "Country" :> co @@ "Temperature (C)" :> t
        @@ "Humidity (%)" :> h @@ "Description" :> d

\* weather_list[0].get("description") if weather_list else ""
FirstDescription(weather_list) ==
    IF weather_list.v = <<>> THEN Str("")
    ELSE LET d == weather_list.v[1].description
         IN IF d = Absent THEN Null ELSE d

\* A default that is applied to None only, not to "".
OrNAOnlyNone(v) == IF v = Null THEN Str("n/a") ELSE v

\* v or "n/a"
OrNA(v) == IF v = Null \/ v = Str("") THEN Str("n/a") ELSE v

MissingFields == "API response missing temperature or humidity fields."

\* A parse_weather that only checks the temperature.
parse_weatherTempOnly(data) ==
    LET main == OrEmptyObj(data.main, Main(Absent, Absent))
        temp_c == Get(main.temp, Null)
        humidity == Get(main.humidity, Null)
    IN IF temp_c = Null THEN Raise(MissingFields)
       ELSE Return(Row(Get(data.name, Str("Unknown")),
                       Get(OrEmptyObj(data.sys, Sys(Absent)).country, Str(EmDash)),
                       round1(temp_c.v),
                       IF humidity = Null THEN PyInt(0) ELSE int(humidity.v),
                       OrNA(FirstDescription(OrEmptyObj(data.weather, List(<<>>))))))

parse_weather(data) ==
    LET city_ == Get(data.name, Str("Unknown"))
        country == Get(OrEmptyObj(data.sys, Sys(Absent)).country, Str(EmDash))
        main == OrEmptyObj(data.main, Main(Absent, Absent))
        temp_c == Get(main.temp, Null)
        humidity == Get(main.humidity, Null)
        weather_list == OrEmptyObj(data.weather, List(<<>>))
        description == OrNA(FirstDescription(weather_list))
    IN IF temp_c = Null \/ humidity = Null THEN Raise(MissingFields)
       ELSE Return(Row(city_, country, round1(temp_c.v), int(humidity.v),
                       description))

----------------------------------------------------------------------------
\* print_summary

print_summary(row) ==
    "\nWeather for " \o PyStr(row["City"]) \o ", " \o PyStr(row["Country"])
        \o ": " \o PyStr(row["Description"]) \o " | Temp: "
        \o PyStr(row["Temperature (C)"]) \o Degree \o "C | Humidity: "
        \o PyStr(row["Humidity (%)"]) \o "%\n"

----------------------------------------------------------------------------
\* The CSV file: write_row_to_csv and read_and_report.

CSV_FILE == "city_data.csv"

File(exists, rows) == [exists |-> exists, rows |-> rows]
NoFile == File(FALSE, <<>>)

\* csv_path.stat().st_size
Size(f) == Len(f.rows)

\* The record DictWriter.writerow writes: the row's values in header order.
CsvRow(row) == [i \in 1..Len(CSV_HEADERS) |-> CsvText(row[CSV_HEADERS[i]])]

\* A write_row_to_csv that writes the header on every call.
write_row_to_csvAlwaysHeader(row, f) ==
    File(TRUE, f.rows \o <<CSV_HEADERS>> \o <<CsvRow(row)>>)

\* Mode "a" creates the file when it is absent and keeps what it holds.
write_row_to_csv(row, f) ==
    LET file_exists == f.exists
        write_header == IF file_exists THEN Size(f) = 0 ELSE TRUE
    IN File(TRUE, f.rows \o (IF write_header THEN <<CSV_HEADERS>> ELSE <<>>)
                         \o <<CsvRow(row)>>)

\* csv.DictReader: the first record is the field names; the records after
\* it, blank lines skipped, are the rows.
FieldNames(f) == f.rows[1]
ReaderRows(f) == SelectSeq(Tail(f.rows), LAMBDA r : r # <<>>)

\* r.get(key, default) on the dict DictReader builds from a record: the
\* value under the last field named key, None when the record is too
\* short, the default when no field has that name.
RowGet(fieldnames, r, key, default) ==
    LET at == {i \in 1..Len(fieldnames) : fieldnames[i] = key}
    IN IF at = {} THEN Str(default)
       ELSE LET i == CHOOSE j \in at : \A m \in at : m <= j
            IN IF i <= Len(r) THEN Str(r[i]) ELSE Null

NothingToReport == "No CSV data to report yet."

ReportLine(fieldnames, r) ==
    " - " \o PyStr(RowGet(fieldnames, r, "City", "Unknown")) \o ": "
        \o PyStr(RowGet(fieldnames, r, "Temperature (C)", "n/a")) \o Degree \o "C"

\* A read_and_report that counts the header as an entry.
read_and_reportCountHeader(f) ==
    IF ~f.exists \/ Size(f) = 0 THEN <<NothingToReport>>
    ELSE LET rows == ReaderRows(f)
         IN IF rows = <<>> THEN <<NothingToReport>>
            ELSE <<"Entries in " \o CSV_FILE \o ": " \o ToString(Len(f.rows))>>
                 \o [i \in 1..Len(rows) |-> ReportLine(FieldNames(f), rows[i])]

\* A read_and_report without the "if not rows" test.
read_and_reportNoEmptyTest(f) ==
    IF ~f.exists \/ Size(f) = 0 THEN <<NothingToReport>>
    ELSE LET rows == ReaderRows(f)
         IN <<"Entries in " \o CSV_FILE \o ": " \o ToString(Len(rows))>>
            \o [i \in 1..Len(rows) |-> ReportLine(FieldNames(f), rows[i])]

\* The lines read_and_report prints; the file is only read.
read_and_report(f) ==
    IF ~f.exists \/ Size(f) = 0 THEN <<NothingToReport>>
    ELSE LET rows == ReaderRows(f)
         IN IF rows = <<>> THEN <<NothingToReport>>
            ELSE <<"Entries in " \o CSV_FILE \o ": " \o ToString(Len(rows))>>
                 \o [i \in 1..Len(rows) |-> ReportLine(FieldNames(f), rows[i])]

----------------------------------------------------------------------------
\* The environment: what is typed, what the API answers, what is on disk.

SeqsUpTo(S, n) == UNION {[1..m -> S] : m \in 0..n}

\* Lines typed at the API key prompt, and values of the environment variable.
KeyLines == {<<>>, <<Space>>, <<Space, "k", Space>>}
EnvKeys == {Null, Str(<<Space>>), Str(<<"k">>)}

\* Lines typed at the city prompt in a whole run.
CityLines == {<<Tab>>, <<Space, "a", Space, Space, "a">>}

\* Every line of at most MaxLen characters.
AllLines == SeqsUpTo(Alphabet, MaxLen)

\* 200 bodies: every combination of present, null and missing fields, with
\* in-range and out-of-range numbers.
Names == {Absent, Null, Str("London")}
Syses == {Absent, Null, Sys(Absent), Sys(Null), Sys(Str("GB"))}
TempValues == {Absent, Null, Num(1534), Num(-30000)}
HumidityValues == {Absent, Null, Num(729), Num(1500)}
Mains == {Absent, Null} \cup {Main(t, h) : t \in TempValues, h \in HumidityValues}
Weathers ==
    {Absent, Null, List(<<>>), List(<<Weather(Absent)>>), List(<<Weather(Null)>>),
     List(<<Weather(Str(""))>>), List(<<Weather(Str("clear sky"))>>)}
Bodies ==
    {Body(Absent, n, s, m, w) : n \in Names, s \in Syses, m \in Mains, w \in Weathers}

\* Error bodies: {"message": ...} or {}.
ErrorBodies == {Undecodable, EmptyObj, Body(Str("city not found"), Absent, Absent, Absent, Absent)}

\* Every outcome of the GET.
Exchanges ==
    {Exc("timed out")}
        \cup {Resp(st, b) : st \in {401, 404, 500}, b \in ErrorBodies}
        \cup {Resp(200, b) : b \in Bodies \cup {Undecodable}}

\* A few outcomes, for runs repeated against the same file.
FewExchanges ==
    {Exc("timed out"),
     Resp(404, Body(Str("city not found"), Absent, Absent, Absent, Absent)),
     Resp(200, Body(Absent, Str("London"), Sys(Str("GB")), Main(Num(1534), Null),
                    List(<<Weather(Str("clear sky"))>>))),
     Resp(200, Body(Absent, Str("London"), Sys(Str("GB")), Main(Num(1534), Num(729)),
                    List(<<Weather(Str("clear sky"))>>))),
     Resp(200, Body(Absent, Null, Absent, Main(Num(-3), Num(-5)), Absent))}

\* Bodies with numeric temperature and humidity over a range.
ExampleTemps == {1534, 1535, 1525, 1575, -1534, -30000}
ExampleHums == {729, -729, 1500}
NumBodies ==
    {Body(Absent, Str("London"), Sys(Str("GB")), Main(Num(h), Num(d)),
          List(<<Weather(Str("clear sky"))>>)) :
        h \in (-MaxTemp..MaxTemp) \cup ExampleTemps,
        d \in (-MaxHum..MaxHum) \cup ExampleHums}

\* Rows as parse_weather builds them, for direct calls of write_row_to_csv.
DriverRows ==
    {Row(Str("London"), Str("GB"), PyFloat(FALSE, 153), PyInt(72), Str("clear sky")),
     Row(Null, Str(EmDash), PyFloat(TRUE, 0), PyInt(-5), Str("n/a"))}

\* A record the program wrote in an earlier run.
OldRecord == <<"Paris", "FR", "21.0", "40", "few clouds">>

\* The file when a run starts: absent, empty, or the header and up to
\* MaxRows records.
InitFiles ==
    {NoFile, File(TRUE, <<>>)}
        \cup {File(TRUE, <<CSV_HEADERS>> \o [i \in 1..n |-> OldRecord]) : n \in 0..MaxRows}

\* Files for direct calls: the header, then records and blank lines.
CsvFiles ==
    {NoFile, File(TRUE, <<>>)}
        \cup {File(TRUE, <<CSV_HEADERS>> \o t) :
                t \in SeqsUpTo({OldRecord, <<"", "", "-0.0", "7", "n/a">>, <<>>}, MaxRows)}

\* Data rows of a file: the non-blank records after the header.
DataRows(f) == IF f.rows = <<>> THEN <<>> ELSE SelectSeq(Tail(f.rows), LAMBDA r : r # <<>>)

----------------------------------------------------------------------------
\* The program's state machine (spec section 4), read off the position.

StateOf(p, code) ==
    CASE p = "get_api_key" -> "INIT"
      [] p = "prompt_city" -> "CONFIG_RESOLVED"
      [] p = "fetch_weather" -> "CITY_COLLECTED"
      [] p \in {"parse_weather", "except"} -> "FETCH_ATTEMPTED"
      [] p \in {"print_summary", "write_row_to_csv", "read_and_report"} -> "PARSED"
      [] p = "return" -> "REPORTED"
      [] p = "exit" -> (IF code = 0 THEN "DONE" ELSE "FAILED")
      [] OTHER -> "DRIVER"

Components ==
    {"get_api_key", "prompt_city", "fetch_weather", "requests.get", "parse_weather",
     "print_summary", "write_row_to_csv", "read_and_report"}

NoCalls == [c \in Components |-> 0]
Called(c) == [calls EXCEPT ![c] = @ + 1]

\* Bookkeeping of a step: the state machine's trail.
Track ==
    trail' = IF StateOf(pc', exit_code') # StateOf(pc, exit_code)
             THEN Append(trail, StateOf(pc', exit_code'))
             ELSE trail

----------------------------------------------------------------------------
\* main(), one action per call it makes.

history == <<file0, runs, successes, rows0, written>>

\* api_key = get_api_key(); a missing key ends the process with status 1.
MainGetApiKey ==
    /\ pc = "get_api_key"
    /\ \E typed \in KeyLines :
        LET r == get_api_key(env_key, typed)
        IN /\ api_key' = r.val
           /\ key_line' = IF KeyUsable(env_key) THEN <<>> ELSE typed
           /\ pc' = IF r.ok THEN "prompt_city" ELSE "exit"
           /\ exit_code' = IF r.ok THEN exit_code ELSE 1
           /\ stdout' = stdout
                \o (IF KeyUsable(env_key) THEN <<>>
                    ELSE <<"No OPENWEATHER_API_KEY found in environment.">>)
                \o (IF r.ok THEN <<>> ELSE <<r.err>>)
    /\ calls' = Called("get_api_key")
    /\ Track
    /\ UNCHANGED <<env_key, city, line, rejected, only_blank, raw_data, http, err,
                   parsed, file, history>>

IsBlank(l) == \A i \in 1..Len(l) : l[i] \in Whitespace

\* city = prompt_city(): one pass of its loop per line read.
PromptCity(Lines) ==
    /\ pc = "prompt_city"
    /\ \E l \in Lines :
        LET raw == Strip(l)
        IN /\ line' = l
           /\ IF raw # <<>>
              THEN /\ city' = Normalize(raw)
                   /\ pc' = "fetch_weather"
                   /\ UNCHANGED <<rejected, only_blank, stdout>>
              ELSE /\ rejected < MaxPrompts
                   /\ rejected' = rejected + 1
                   /\ only_blank' = (only_blank /\ IsBlank(l))
                   /\ stdout' = Append(stdout, "City name cannot be empty. Please try again.")
                   /\ UNCHANGED <<city, pc>>
    /\ calls' = IF rejected = 0 THEN Called("prompt_city") ELSE calls
    /\ Track
    /\ UNCHANGED <<env_key, api_key, key_line, raw_data, http, err, parsed, file, exit_code,
                   history>>

\* raw_data = fetch_weather(city, api_key): one GET, whose outcome is x.
MainFetch(Outcomes) ==
    /\ pc = "fetch_weather"
    /\ \E x \in Outcomes :
        LET r == fetch_weather(x)
        IN /\ http' = x
           /\ raw_data' = r.val
           /\ err' = r.err
           /\ pc' = IF r.ok THEN "parse_weather" ELSE "except"
    /\ calls' = [calls EXCEPT !["fetch_weather"] = @ + 1, !["requests.get"] = @ + 1]
    /\ Track
    /\ UNCHANGED <<env_key, api_key, key_line, city, line, rejected, only_blank, parsed, file,
                   stdout, exit_code, history>>

\* parsed = parse_weather(raw_data)
MainParse ==
    /\ pc = "parse_weather"
    /\ LET r == parse_weather(raw_data)
       IN /\ parsed' = r.val
          /\ err' = r.err
          /\ pc' = IF r.ok THEN "print_summary" ELSE "except"
    /\ calls' = Called("parse_weather")
    /\ Track
    /\ UNCHANGED <<env_key, api_key, key_line, city, line, rejected, only_blank, raw_data, http,
                   file, stdout, exit_code, history>>

\* A handler that goes back to the fetch.
MainExceptRetry ==
    /\ pc = "except"
    /\ stdout' = Append(stdout, "Error: " \o err)
    /\ pc' = IF calls["requests.get"] < 2 THEN "fetch_weather" ELSE "exit"
    /\ exit_code' = 1
    /\ Track
    /\ UNCHANGED <<env_key, api_key, key_line, city, line, rejected, only_blank, raw_data, http,
                   err, parsed, file, calls, history>>

\* except ValueError as err: print(f"Error: {err}"); sys.exit(1)
MainExcept ==
    /\ pc = "except"
    /\ stdout' = Append(stdout, "Error: " \o err)
    /\ pc' = "exit"
    /\ exit_code' = 1
    /\ Track
    /\ UNCHANGED <<env_key, api_key, key_line, city, line, rejected, only_blank, raw_data, http,
                   err, parsed, file, calls, history>>

\* print_summary(parsed)
MainPrintSummary ==
    /\ pc = "print_summary"
    /\ stdout' = Append(stdout, print_summary(parsed))
    /\ pc' = "write_row_to_csv"
    /\ calls' = Called("print_summary")
    /\ Track
    /\ UNCHANGED <<env_key, api_key, key_line, city, line, rejected, only_blank, raw_data, http,
                   err, parsed, file, exit_code, history>>

\* write_row_to_csv(parsed)
MainWriteRow ==
    /\ pc = "write_row_to_csv"
    /\ file' = write_row_to_csv(parsed, file)
    /\ written' = Append(written, parsed)
    /\ successes' = successes + 1
    /\ pc' = "read_and_report"
    /\ calls' = Called("write_row_to_csv")
    /\ Track
    /\ UNCHANGED <<env_key, api_key, key_line, city, line, rejected, only_blank, raw_data, http,
                   err, parsed, stdout, exit_code, file0, runs, rows0>>

\* read_and_report()
MainReport ==
    /\ pc = "read_and_report"
    /\ stdout' = stdout \o read_and_report(file)
    /\ pc' = "return"
    /\ calls' = Called("read_and_report")
    /\ Track
    /\ UNCHANGED <<env_key, api_key, key_line, city, line, rejected, only_blank, raw_data, http,
                   err, parsed, file, exit_code, history>>

\* main returns and the interpreter exits with status 0.
MainReturn ==
    /\ pc = "return"
    /\ pc' = "exit"
    /\ exit_code' = 0
    /\ Track
    /\ UNCHANGED <<env_key, api_key, key_line, city, line, rejected, only_blank, raw_data, http,
                   err, parsed, file, stdout, calls, history>>

\* The program is started again; the file is what the last run left.
NewRun ==
    /\ pc = "exit"
    /\ runs + 1 < MaxRuns
    /\ runs' = runs + 1
    /\ pc' = "get_api_key"
    /\ env_key' \in EnvKeys
    /\ api_key' = Null
    /\ key_line' = <<>>
    /\ city' = <<>>
    /\ line' = <<>>
    /\ rejected' = 0
    /\ only_blank' = TRUE
    /\ raw_data' = Null
    /\ http' = Null
    /\ err' = ""
    /\ parsed' = Null
    /\ stdout' = <<>>
    /\ exit_code' = 0
    /\ calls' = NoCalls
    /\ trail' = <<"INIT">>
    /\ file0' = file
    /\ UNCHANGED <<file, successes, rows0, written>>

\* The state when the program is started.
Init ==
    /\ pc = "get_api_key"
    /\ env_key \in EnvKeys
    /\ api_key = Null
    /\ key_line = <<>>
    /\ city = <<>>
    /\ line = <<>>
    /\ rejected = 0
    /\ only_blank = TRUE
    /\ raw_data = Null
    /\ http = Null
    /\ err = ""
    /\ parsed = Null
    /\ file \in InitFiles
    /\ stdout = <<>>
    /\ exit_code = 0
    /\ calls = NoCalls
    /\ trail = <<"INIT">>
    /\ file0 = file
    /\ runs = 0
    /\ successes = 0
    /\ rows0 = Len(DataRows(file))
    /\ written = <<>>

\* One run of the program, against every outcome of the GET.
Next ==
    \/ MainGetApiKey
    \/ PromptCity(CityLines)
    \/ MainFetch(Exchanges)
    \/ MainParse
    \/ MainExcept
    \/ MainPrintSummary
    \/ MainWriteRow
    \/ MainReport
    \/ MainReturn

Spec == Init /\ [][Next]_vars

\* Runs repeated against the same file.
NextRuns ==
    \/ MainGetApiKey
    \/ PromptCity(CityLines)
    \/ MainFetch(FewExchanges)
    \/ MainParse
    \/ MainExcept
    \/ MainPrintSummary
    \/ MainWriteRow
    \/ MainReport
    \/ MainReturn
    \/ NewRun

SpecRuns == Init /\ [][NextRuns]_vars

----------------------------------------------------------------------------
\* prompt_city against every line of at most MaxLen characters.

InitCity ==
    /\ pc = "prompt_city"
    /\ env_key = Str(<<"k">>)
    /\ api_key = Str(<<"k">>)
    /\ key_line = <<>>
    /\ city = <<>>
    /\ line = <<>>
    /\ rejected = 0
    /\ only_blank = TRUE
    /\ raw_data = Null
    /\ http = Null
    /\ err = ""
    /\ parsed = Null
    /\ file = NoFile
    /\ stdout = <<>>
    /\ exit_code = 0
    /\ calls = [NoCalls EXCEPT !["get_api_key"] = 1]
    /\ trail = <<"INIT", "CONFIG_RESOLVED">>
    /\ file0 = file
    /\ runs = 0
    /\ successes = 0
    /\ rows0 = 0
    /\ written = <<>>

NextCity == PromptCity(AllLines)

SpecCity == InitCity /\ [][NextCity]_vars

----------------------------------------------------------------------------
\* parse_weather on 200 bodies whose temperature and humidity range over
\* numbers: main() from the point where fetch_weather has returned.

InitNum ==
    /\ pc = "parse_weather"
    /\ env_key = Str(<<"k">>)
    /\ api_key = Str(<<"k">>)
    /\ key_line = <<>>
    /\ city = <<"A">>
    /\ line = <<"a">>
    /\ rejected = 0
    /\ only_blank = TRUE
    /\ raw_data \in NumBodies
    /\ http = Resp(200, raw_data)
    /\ err = ""
    /\ parsed = Null
    /\ file = NoFile
    /\ stdout = <<>>
    /\ exit_code = 0
    /\ calls = [c \in Components |->
                  IF c \in {"get_api_key", "prompt_city", "fetch_weather", "requests.get"}
                  THEN 1 ELSE 0]
    /\ trail = <<"INIT", "CONFIG_RESOLVED", "CITY_COLLECTED", "FETCH_ATTEMPTED">>
    /\ file0 = file
    /\ runs = 0
    /\ successes = 0
    /\ rows0 = 0
    /\ written = <<>>

NextNum == MainParse \/ MainPrintSummary

SpecNum == InitNum /\ [][NextNum]_vars

----------------------------------------------------------------------------
\* write_row_to_csv and read_and_report called directly, in any order, on a
\* file that holds the header and any records.

CallWrite ==
    /\ pc \in {"csv_idle", "csv_reported"}
    /\ Len(written) < MaxCalls
    /\ \E row \in DriverRows :
        /\ file' = write_row_to_csv(row, file)
        /\ written' = Append(written, row)
    /\ pc' = "csv_idle"
    /\ UNCHANGED <<env_key, api_key, key_line, city, line, rejected, only_blank, raw_data, http,
                   err, parsed, stdout, exit_code, calls, trail, file0, runs,
                   successes, rows0>>

CallReport ==
    /\ pc = "csv_idle"
    /\ stdout' = read_and_report(file)
    /\ pc' = "csv_reported"
    /\ UNCHANGED <<env_key, api_key, key_line, city, line, rejected, only_blank, raw_data, http,
                   err, parsed, file, exit_code, calls, trail, history>>

InitCsv ==
    /\ pc = "csv_idle"
    /\ env_key = Null
    /\ api_key = Null
    /\ key_line = <<>>
    /\ city = <<>>
    /\ line = <<>>
    /\ rejected = 0
    /\ only_blank = TRUE
    /\ raw_data = Null
    /\ http = Null
    /\ err = ""
    /\ parsed = Null
    /\ file \in CsvFiles
    /\ stdout = <<>>
    /\ exit_code = 0
    /\ calls = NoCalls
    /\ trail = <<>>
    /\ file0 = file
    /\ runs = 0
    /\ successes = 0
    /\ rows0 = Len(DataRows(file))
    /\ written = <<>>

NextCsv == CallWrite \/ CallReport

SpecCsv == InitCsv /\ [][NextCsv]_vars

----------------------------------------------------------------------------
\* What the properties below speak of, stated on inputs and outputs only.

IsPrefix(s, t) == Len(s) <= Len(t) /\ s = SubSeq(t, 1, Len(s))

\* The records the rows written so far make, in order.
WrittenRecords == [i \in 1..Len(written) |-> CsvRow(written[i])]

\* The file that one header and the written rows, appended to what the file
\* held at the start, make.
ExpectedFile ==
    IF written = <<>> THEN file0
    ELSE File(TRUE, (IF file0.rows = <<>> THEN <<CSV_HEADERS>> ELSE file0.rows)
                        \o WrittenRecords)

HeaderCount(f) == Cardinality({i \in 1..Len(f.rows) : f.rows[i] = CSV_HEADERS})

\* The environment variable is set to something other than blanks.
EnvSupplied == env_key # Null /\ ~IsBlank(env_key.v)

\* No credential: nothing usable in the environment, nothing typed.
NoCredential == ~EnvSupplied /\ IsBlank(key_line)

\* main.temp or main.humidity is absent from a decoded body.
MissingTempOrHumidity(b) ==
    \/ b.main \in {Absent, Null}
    \/ b.main.temp \in {Absent, Null}
    \/ b.main.humidity \in {Absent, Null}

\* The GET of this run was made and fetch_weather or parse_weather fails on
\* its outcome.
FetchOrParseFails ==
    /\ http # Null
    /\ \/ http.k = "exc"
       \/ http.status # 200
       \/ http.body = Undecodable
       \/ MissingTempOrHumidity(http.body)

HasMessage(b) == b # Undecodable /\ b.message # Absent

\* The description of a body's first weather element, "" when there is none.
DescriptionOf(b) ==
    IF b.weather \in {Absent, Null} THEN Str("")
    ELSE IF b.weather.v = <<>> THEN Str("")
    ELSE IF b.weather.v[1].description \in {Absent, Null} THEN Str("")
    ELSE b.weather.v[1].description

CountryMissing(b) == b.sys \in {Absent, Null} \/ b.sys.country = Absent

\* The line the report prints for a record of the file.
SummaryLine(r) == " - " \o r[1] \o ": " \o r[3] \o Degree \o "C"

EntriesLine(n) == "Entries in city_data.csv: " \o ToString(n)

\* The report of a file with data rows: the count, then a line per row.
FullReport(f) ==
    <<EntriesLine(Len(DataRows(f)))>>
        \o [i \in 1..Len(DataRows(f)) |-> SummaryLine(DataRows(f)[i])]

Chain ==
    <<"INIT", "CONFIG_RESOLVED", "CITY_COLLECTED", "FETCH_ATTEMPTED", "PARSED",
      "REPORTED", "DONE">>
FailChain ==
    <<"INIT", "CONFIG_RESOLVED", "CITY_COLLECTED", "FETCH_ATTEMPTED", "FAILED">>

OncePerRun == \A c \in Components : calls[c] <= 1

NonWs(l) == SelectSeq(l, LAMBDA c : c \notin Whitespace)
LowerAll(l) == [i \in 1..Len(l) |-> Lower(l[i])]
WordCount(l) ==
    Cardinality({i \in 1..Len(l) : l[i] \notin Whitespace /\ (i = 1 \/ l[i - 1] \in Whitespace)})
SpaceCount(l) == Cardinality({i \in 1..Len(l) : l[i] = Space})

----------------------------------------------------------------------------
\* C1: rows written one after another to a file that was absent or empty
\* leave exactly one header followed by the rows in the order written; on a
\* file that already holds a header and data each write appends one row,
\* adds no header and keeps what was there as a prefix.
C1_OneHeaderThenRowsInOrder ==
    written # <<>> =>
        /\ file = ExpectedFile
        /\ HeaderCount(file) = 1
        /\ file.rows[1] = CSV_HEADERS
        /\ Len(DataRows(file)) = rows0 + Len(written)
        /\ IsPrefix(file0.rows, file.rows)

C1_Witness ==
    /\ file0 = NoFile
    /\ Len(written) = 2
    /\ written[1] # written[2]
    /\ Len(file.rows) = 3

\* C2: a run in which fetch_weather or parse_weather fails leaves the CSV
\* file as it was (absent if it was absent) and runs none of print_summary,
\* write_row_to_csv and read_and_report.
C2_FailedRunLeavesFile ==
    FetchOrParseFails =>
        /\ file = file0
        /\ calls["print_summary"] = 0
        /\ calls["write_row_to_csv"] = 0
        /\ calls["read_and_report"] = 0
        /\ pc \in {"parse_weather", "except", "exit"}

C2_Witness ==
    /\ pc = "exit"
    /\ FetchOrParseFails
    /\ http.k = "resp"
    /\ http.status = 200
    /\ http.body # Undecodable
    /\ http.body.main \notin {Absent, Null}
    /\ http.body.main.humidity = Null
    /\ Len(file0.rows) = 2

\* C3: a run that has ended has exit code 1 if no credential was supplied or
\* if fetch_weather or parse_weather failed, and exit code 0 otherwise, in
\* which case it reached the report.
C3_ExitCodes ==
    pc = "exit" =>
        /\ exit_code \in {0, 1}
        /\ IF NoCredential \/ FetchOrParseFails
           THEN exit_code = 1
           ELSE exit_code = 0 /\ calls["read_and_report"] = 1

C3_Witness == pc = "exit" /\ NoCredential /\ env_key = Str(<<Space>>) /\ exit_code = 1

\* C4: fetch_weather maps the outcome of its GET to one result: a transport
\* failure to the network error, 401 to the unauthorized error, 404 to the
\* not-found error with the body's message or "City not found.", another
\* non-200 status to the API error with the status and the body's message,
\* and 200 to the decoded body, with no error. (The state is the one
\* fetch_weather leaves: it returned, or its error is at the handler.)
C4_FetchMapping ==
    (http # Null /\ calls["parse_weather"] = 0 /\ pc # "exit") =>
        IF http.k = "exc"
        THEN pc = "except" /\ err = "Network error contacting the API: " \o http.text
        ELSE IF http.status = 200
        THEN /\ pc = "parse_weather"
             /\ err = ""
             /\ http.body # Undecodable => raw_data = http.body
        ELSE IF http.status = 401
        THEN pc = "except" /\ err = "Unauthorized (401): Invalid or missing API key."
        ELSE IF http.status = 404
        THEN /\ pc = "except"
             /\ err = "Not found (404): "
                        \o (IF HasMessage(http.body) THEN http.body.message.v
                            ELSE "City not found.")
        ELSE /\ pc = "except"
             /\ err = "API error (" \o ToString(http.status) \o "): "
                        \o (IF HasMessage(http.body) THEN http.body.message.v
                            ELSE "Unexpected error")

C4_Witness ==
    /\ pc = "except"
    /\ http # Null
    /\ http.k = "resp"
    /\ http.status = 404
    /\ HasMessage(http.body)
    /\ err = "Not found (404): city not found"

\* C5: on a 200 body without main.temp or main.humidity parse_weather fails
\* with the malformed-response error, whatever the other fields hold, and
\* the run writes no row; on a body with both it returns a row, with
\* "Unknown" for a missing name, the placeholder for a missing country and
\* "n/a" for an absent or empty description, whatever the numbers are.
C5_ParseValidation ==
    (http # Null /\ http.k = "resp" /\ http.status = 200 /\ calls["parse_weather"] = 1) =>
        LET b == Json(http.body)
        IN IF MissingTempOrHumidity(b)
           THEN /\ err = MissingFields
                /\ pc \in {"except", "exit"}
                /\ calls["write_row_to_csv"] = 0
                /\ file = file0
           ELSE /\ err = ""
                /\ pc \notin {"except", "parse_weather"}
                /\ DOMAIN parsed = {CSV_HEADERS[i] : i \in 1..Len(CSV_HEADERS)}
                /\ parsed["City"] = (IF b.name = Absent THEN Str("Unknown") ELSE b.name)
                /\ parsed["Country"] =
                     (IF CountryMissing(b) THEN Str(EmDash) ELSE b.sys.country)
                /\ parsed["Description"] =
                     (IF DescriptionOf(b) = Str("") THEN Str("n/a") ELSE DescriptionOf(b))

C5_Witness ==
    /\ pc = "exit"
    /\ http # Null
    /\ http.k = "resp"
    /\ http.status = 200
    /\ http.body # Undecodable
    /\ http.body.main \notin {Absent, Null}
    /\ http.body.main.temp = Num(1534)
    /\ http.body.main.humidity = Absent
    /\ err = MissingFields

\* C6 as the spec states it: every run goes INIT, CONFIG_RESOLVED,
\* CITY_COLLECTED, FETCH_ATTEMPTED and then PARSED, REPORTED, DONE or FAILED;
\* FAILED is entered only from FETCH_ATTEMPTED; each component runs at most
\* once and a run that has ended made exactly one GET.
C6_Original ==
    /\ IsPrefix(trail, Chain) \/ IsPrefix(trail, FailChain)
    /\ OncePerRun
    /\ pc = "exit" => calls["requests.get"] = 1

\* C6, amended: states are entered only in the order of the chain and none
\* twice; FAILED is entered from FETCH_ATTEMPTED, or from INIT when no
\* credential is supplied; each component runs at most once per run, and a
\* run that got past CITY_COLLECTED made exactly one GET, a run that did not
\* made none.
C6_SinglePass ==
    /\ \/ IsPrefix(trail, Chain)
       \/ IsPrefix(trail, FailChain)
       \/ trail = <<"INIT", "FAILED">> /\ NoCredential
    /\ trail[Len(trail)] = StateOf(pc, exit_code)
    /\ OncePerRun
    /\ calls["requests.get"] = (IF Len(trail) > 3 THEN 1 ELSE 0)

C6_Witness == pc = "exit" /\ trail = FailChain /\ calls["requests.get"] = 1

\* C7 as the spec states it: read_and_report prints the nothing-to-report
\* message for a file that is absent or empty and, for any other file, the
\* count of its data rows followed by one line per data row, in file
\* order; the file is left as it was.
C7_Original ==
    pc = "csv_reported" =>
        /\ stdout = (IF ~file.exists \/ file.rows = <<>> THEN <<NothingToReport>>
                     ELSE FullReport(file))
        /\ file = ExpectedFile

\* C7, amended: read_and_report prints the nothing-to-report message for a
\* file that is absent, empty or without data rows (a header alone) and,
\* for any other file, the count K >= 1 of its data rows followed by one
\* line per data row, in file order, with the row's city and temperature;
\* the file is left as it was.
C7_Report ==
    pc = "csv_reported" =>
        /\ stdout = (IF ~file.exists \/ DataRows(file) = <<>> THEN <<NothingToReport>>
                     ELSE FullReport(file))
        /\ file = ExpectedFile

C7_Witness ==
    /\ pc = "csv_reported"
    /\ written = <<>>
    /\ Len(DataRows(file)) = 2
    /\ Len(stdout) = 3
    /\ stdout[1] = "Entries in city_data.csv: 2"
    /\ stdout[2] = " - Paris: 21.0<U+00B0>C"

\* C8: prompt_city does not return for a line that is empty or only
\* whitespace; what it returns comes from the first line with a visible
\* character: it is not empty, has no whitespace at either end, has single
\* spaces where the line had runs of whitespace, is title-cased, keeps the
\* line's words, and is its own normalisation.
C8_PromptCity ==
    pc = "fetch_weather" =>
        /\ ~IsBlank(line)
        /\ only_blank
        /\ city # <<>>
        /\ city[1] \notin Whitespace
        /\ city[Len(city)] \notin Whitespace
        /\ \A i \in 1..Len(city) : city[i] # Tab
        /\ \A i \in 1..(Len(city) - 1) : ~(city[i] = Space /\ city[i + 1] = Space)
        /\ \A i \in 1..Len(city) :
              IsCased(city[i]) => (IsUpper(city[i]) <=> (i = 1 \/ ~IsCased(city[i - 1])))
        /\ LowerAll(NonWs(city)) = LowerAll(NonWs(line))
        /\ SpaceCount(city) + 1 = WordCount(line)
        /\ Normalize(Strip(city)) = city

C8_Witness ==
    /\ pc = "fetch_weather"
    /\ rejected = 2
    /\ line = <<Space, "a", Tab, "A">>
    /\ city = <<"A", Space, "A">>

\* C9: on a 200 body with numeric main.temp and main.humidity the row's
\* temperature is the input rounded to one decimal place (15.34 gives 15.3)
\* and its humidity the input truncated toward zero (72.9 gives 72).
C9_Numbers ==
    pc # "parse_weather" =>
        LET h == raw_data.main.temp.v
            d == raw_data.main.humidity.v
            t == parsed["Temperature (C)"]
            n == parsed["Humidity (%)"]
        IN /\ t.k = "float"
           /\ Abs(10 * Tenths(t) - h) <= 5
           /\ n.k = "int"
           /\ Abs(10 * n.v) <= Abs(d)
           /\ Abs(d) - Abs(10 * n.v) < 10
           /\ n.v # 0 => ((n.v < 0) = (d < 0))
           /\ h = 1534 => FloatRepr(t) = "15.3"
           /\ d = 729 => n.v = 72

C9_Witness ==
    /\ pc = "print_summary"
    /\ raw_data.main.temp = Num(1534)
    /\ raw_data.main.humidity = Num(729)
    /\ parsed["Temperature (C)"] = PyFloat(FALSE, 153)
    /\ parsed["Humidity (%)"] = PyInt(72)

\* C10: in a run in which fetch and parse succeed, from a file that is
\* absent, empty or a header and K >= 0 data rows, the report shows K + 1
\* entries and ends with the city and temperature of the row just written;
\* the nothing-to-report message is not printed; over repeated runs the
\* count is the number of rows the file started with plus the number of
\* successful runs, and a failed run adds nothing.
C10_ReportAfterWrite ==
    /\ Len(DataRows(file)) = rows0 + successes
    /\ (pc = "exit" /\ exit_code = 1) => file = file0
    /\ calls["read_and_report"] = 1 =>
        LET K == Len(DataRows(file0))
            n == Len(stdout)
        IN /\ n >= K + 2
           /\ stdout[n - (K + 1)] = EntriesLine(K + 1)
           /\ K + 1 = rows0 + successes
           /\ rows0 = 0 => stdout[n - (K + 1)] = EntriesLine(successes)
           /\ stdout[n] = " - " \o CsvText(parsed["City"]) \o ": "
                            \o CsvText(parsed["Temperature (C)"]) \o Degree \o "C"
           /\ \A i \in 1..n : stdout[i] # NothingToReport

C10_Witness ==
    /\ pc = "exit"
    /\ exit_code = 0
    /\ runs = 2
    /\ successes = 2
    /\ rows0 = 1
    /\ stdout[Len(stdout) - 3] = "Entries in city_data.csv: 3"

====
